---- MODULE Spec2Model ----
(***************************************************************************)
(* Model of the minimal KVM monitor in src/main.rs: the Vmm struct, its    *)
(* constructor Vmm::new, setup_vcpu, the run loop, cleanup, the Drop impl  *)
(* and main.  The program is single threaded; pc is the position of that   *)
(* one thread.  The host (KVM, mmap) is the environment: every host call   *)
(* may succeed or fail, and every vcpu.run() may return any exit.          *)
(***************************************************************************)
EXTENDS Integers, Sequences, FiniteSets, TLC

VARIABLES
    pc,          \* position of the thread
    kvm,         \* Vmm.kvm  : Kvm handle    "none" | "open" | "closed"
    vm,          \* Vmm.vm   : VmFd handle   "none" | "open" | "closed"
    vcpu,        \* Vmm.vcpu : VcpuFd handle "none" | "open" | "closed"
    guest_mem,   \* Vmm.guest_mem: state of the host mapping it points to
    slot0,       \* the region the VM has registered at slot 0
    sregs,       \* vCPU segment registers (cs), as last set by the monitor
    regs,        \* vCPU general registers (rip), as last set by the monitor
    mem,         \* the first bytes of the host mapping
    loop,        \* state of the run loop
    history,     \* exits returned by vcpu.run() in the current run() call
    stdout,      \* kind of the last line printed
    ret,         \* the last value returned to the caller
    munmaps,     \* number of munmap calls issued on guest_mem
    staleUse,    \* uses of guest_mem made while the mapping was unmapped
    callsLeft    \* method calls the owner may still make

vars == <<pc, kvm, vm, vcpu, guest_mem, slot0, sregs, regs, mem, loop,
          history, stdout, ret, munmaps, staleUse, callsLeft>>

(***************************************************************************)
(* Bounds                                                                  *)
(***************************************************************************)
MaxExits == 3
MaxCalls == 3
MemWindow == 4

(***************************************************************************)
(* Program constants                                                       *)
(***************************************************************************)
mem_size == 16 * 1024 * 1024
guest_addr == 4096
guest_code == <<235, 254>>
KVM_MEM_LOG_DIRTY_PAGES == 1

\* The copy of setup_vcpu starts at guest_mem itself: byte offset 0.
load_offset == 0

\* Variant: the instruction pointer set to the offset instead of the
\* guest-physical address.
initial_rip_Offset == load_offset

\* regs.rip = 0x1000 in setup_vcpu.
initial_rip == 4096

\* A fresh anonymous mapping reads as zero; the model keeps its first
\* MemWindow bytes (index i is byte offset i - 1).
zero_page == [i \in 1..MemWindow |-> 0]

\* std::ptr::copy_nonoverlapping(src, dst + off, Len(src)) on the window.
copy_nonoverlapping(src, dst, off) ==
    [i \in 1..Len(dst) |->
        IF (i - 1) >= off /\ (i - 1) < off + Len(src)
        THEN src[i - off]
        ELSE dst[i]]

NoRegion == [slot |-> 0, flags |-> 0, guest_phys_addr |-> 0, memory_size |-> 0]

mem_region ==
    [slot |-> 0, flags |-> KVM_MEM_LOG_DIRTY_PAGES,
     guest_phys_addr |-> guest_addr, memory_size |-> mem_size]

(***************************************************************************)
(* The environment's answers                                               *)
(***************************************************************************)
Ports == {96, 1016}
Datas == {0, 255}
IoKinds == {"IoIn", "IoOut"}
OtherKinds == {"Shutdown", "MmioRead"}

VcpuExit ==
    {[kind |-> "Hlt", addr |-> 0, data |-> 0]}
    \cup [kind : IoKinds, addr : Ports, data : Datas]
    \cup [kind : OtherKinds, addr : {0}, data : {0}]

RunOutcome == VcpuExit \cup {[kind |-> "Err", addr |-> 0, data |-> 0]}

(***************************************************************************)
(* The match of Vmm::run: the state the loop is in after an outcome.       *)
(***************************************************************************)
\* Variants of the match with one arm changed, used to test that the
\* properties below depend on the arms of the match.
Dispatch_IoInAborts(e) ==
    CASE e.kind = "Hlt" -> "Halted"
      [] e.kind = "IoOut" -> "Running"
      [] OTHER -> "Aborted"

Dispatch_HltContinues(e) ==
    CASE e.kind = "Hlt" -> "Running"
      [] e.kind = "IoIn" -> "Running"
      [] e.kind = "IoOut" -> "Running"
      [] OTHER -> "Aborted"

Dispatch_ErrRetried(e) ==
    CASE e.kind = "Hlt" -> "Halted"
      [] e.kind = "IoIn" -> "Running"
      [] e.kind = "IoOut" -> "Running"
      [] e.kind = "Err" -> "Running"
      [] OTHER -> "Aborted"

Dispatch_PortSensitive(e) ==
    CASE e.kind = "Hlt" -> "Halted"
      [] e.kind = "IoIn" -> "Running"
      [] e.kind = "IoOut" -> IF e.addr = 96 THEN "Aborted" ELSE "Running"
      [] OTHER -> "Aborted"

Dispatch_ShutdownHalts(e) ==
    CASE e.kind = "Hlt" -> "Halted"
      [] e.kind = "Shutdown" -> "Halted"
      [] e.kind = "IoIn" -> "Running"
      [] e.kind = "IoOut" -> "Running"
      [] OTHER -> "Aborted"

Dispatch(e) ==
    CASE e.kind = "Hlt" -> "Halted"
      [] e.kind = "IoIn" -> "Running"
      [] e.kind = "IoOut" -> "Running"
      [] OTHER -> "Aborted"

Printed(e) ==
    CASE e.kind = "Hlt" -> "Guest halted"
      [] e.kind = "IoIn" -> "IO in"
      [] e.kind = "IoOut" -> "IO out"
      [] e.kind = "Err" -> "vCPU run failed"
      [] OTHER -> "Unexpected exit"

Init ==
    /\ pc = "main"
    /\ kvm = "none"
    /\ vm = "none"
    /\ vcpu = "none"
    /\ guest_mem = "none"
    /\ slot0 = NoRegion
    /\ sregs = [set |-> FALSE, cs_base |-> 0, cs_selector |-> 0]
    /\ regs = [set |-> FALSE, rip |-> 0]
    /\ mem = zero_page
    /\ loop = "Idle"
    /\ history = <<>>
    /\ stdout = "none"
    /\ ret = [op |-> "none", val |-> "none"]
    /\ munmaps = 0
    /\ staleUse = {}
    /\ callsLeft = MaxCalls

(***************************************************************************)
(* Vmm::new, one step per host call.  A failing `?` returns at once; the   *)
(* locals alive at that point are dropped in reverse order of declaration  *)
(* (vm, then kvm).  guest_mem is a raw pointer and has no destructor.      *)
(***************************************************************************)
new_open_kvm(ok) ==
    /\ pc = "main"
    /\ IF ok
       THEN /\ kvm' = "open"
            /\ stdout' = "KVM API version"
            /\ pc' = "new_create_vm"
            /\ ret' = ret
       ELSE /\ pc' = "exit"
            /\ ret' = [op |-> "new", val |-> "Err"]
            /\ UNCHANGED <<kvm, stdout>>
    /\ UNCHANGED <<vm, vcpu, guest_mem, slot0, sregs, regs, mem, loop,
                   history, munmaps, staleUse, callsLeft>>

new_create_vm(ok) ==
    /\ pc = "new_create_vm"
    /\ IF ok
       THEN /\ vm' = "open"
            /\ pc' = "new_mmap"
       ELSE /\ vm' = vm
            /\ pc' = "unwind_kvm"
    /\ UNCHANGED <<kvm, vcpu, guest_mem, slot0, sregs, regs, mem, loop,
                   history, stdout, ret, munmaps, staleUse, callsLeft>>

\* Variant: the result of mmap is not compared with MAP_FAILED.
new_mmap_Unchecked(ok) ==
    /\ pc = "new_mmap"
    /\ IF ok
       THEN /\ guest_mem' = "mapped"
            /\ mem' = zero_page
       ELSE UNCHANGED <<guest_mem, mem>>
    /\ pc' = "new_set_user_memory_region"
    /\ UNCHANGED <<kvm, vm, vcpu, slot0, sregs, regs, loop, history,
                   stdout, ret, munmaps, staleUse, callsLeft>>

new_mmap(ok) ==
    /\ pc = "new_mmap"
    /\ IF ok
       THEN /\ guest_mem' = "mapped"
            /\ mem' = zero_page
            /\ pc' = "new_set_user_memory_region"
       ELSE /\ pc' = "unwind_vm"
            /\ UNCHANGED <<guest_mem, mem>>
    /\ UNCHANGED <<kvm, vm, vcpu, slot0, sregs, regs, loop, history,
                   stdout, ret, munmaps, staleUse, callsLeft>>

new_set_user_memory_region(ok) ==
    /\ pc = "new_set_user_memory_region"
    /\ IF ok
       THEN /\ slot0' = mem_region
            /\ pc' = "new_create_vcpu"
       ELSE /\ slot0' = slot0
            /\ pc' = "unwind_vm"
    /\ UNCHANGED <<kvm, vm, vcpu, guest_mem, sregs, regs, mem, loop,
                   history, stdout, ret, munmaps, staleUse, callsLeft>>

new_create_vcpu(ok) ==
    /\ pc = "new_create_vcpu"
    /\ IF ok
       THEN /\ vcpu' = "open"
            /\ pc' = "live"
            /\ ret' = [op |-> "new", val |-> "Ok"]
       ELSE /\ pc' = "unwind_vm"
            /\ UNCHANGED <<vcpu, ret>>
    /\ UNCHANGED <<kvm, vm, guest_mem, slot0, sregs, regs, mem, loop,
                   history, stdout, munmaps, staleUse, callsLeft>>

unwind_vm ==
    /\ pc = "unwind_vm"
    /\ vm' = "closed"
    /\ pc' = "unwind_kvm"
    /\ UNCHANGED <<kvm, vcpu, guest_mem, slot0, sregs, regs, mem, loop,
                   history, stdout, ret, munmaps, staleUse, callsLeft>>

unwind_kvm ==
    /\ pc = "unwind_kvm"
    /\ kvm' = "closed"
    /\ pc' = "exit"
    /\ ret' = [op |-> "new", val |-> "Err"]
    /\ UNCHANGED <<vm, vcpu, guest_mem, slot0, sregs, regs, mem, loop,
                   history, stdout, munmaps, staleUse, callsLeft>>

(***************************************************************************)
(* Vmm::setup_vcpu.  failAt names the host call that fails (0: none,       *)
(* 1: get_sregs, 2: set_sregs, 3: get_regs, 4: set_regs); the `?` returns  *)
(* at that call.  The copy into guest_mem is unchecked: when the mapping   *)
(* is gone it is undefined behaviour, and ub chooses between the fault     *)
(* that kills the process and a write that lands elsewhere.                *)
(***************************************************************************)
\* Variant: the guest code is copied before the register calls are made.
setup_vcpu_CopyFirst(failAt, ub) ==
    /\ pc = "live"
    /\ callsLeft > 0
    /\ callsLeft' = callsLeft - 1
    /\ sregs' = IF failAt \in {0, 3, 4}
                THEN [set |-> TRUE, cs_base |-> 0, cs_selector |-> 0]
                ELSE sregs
    /\ regs' = IF failAt = 0 THEN [set |-> TRUE, rip |-> initial_rip] ELSE regs
    /\ IF guest_mem = "mapped"
       THEN /\ ub = "lands"
            /\ mem' = copy_nonoverlapping(guest_code, mem, load_offset)
            /\ ret' = [op |-> "setup_vcpu",
                       val |-> IF failAt = 0 THEN "Ok" ELSE "Err"]
            /\ UNCHANGED <<pc, staleUse>>
       ELSE /\ staleUse' = staleUse \cup {"copy"}
            /\ mem' = mem
            /\ IF ub = "segv"
               THEN /\ pc' = "crashed"
                    /\ ret' = ret
               ELSE /\ pc' = pc
                    /\ ret' = [op |-> "setup_vcpu",
                               val |-> IF failAt = 0 THEN "Ok" ELSE "Err"]
    /\ UNCHANGED <<kvm, vm, vcpu, guest_mem, slot0, loop, history, stdout,
                   munmaps>>

setup_vcpu(failAt, ub) ==
    /\ pc = "live"
    /\ callsLeft > 0
    /\ callsLeft' = callsLeft - 1
    /\ sregs' = IF failAt \in {0, 3, 4}
                THEN [set |-> TRUE, cs_base |-> 0, cs_selector |-> 0]
                ELSE sregs
    /\ regs' = IF failAt = 0 THEN [set |-> TRUE, rip |-> initial_rip] ELSE regs
    /\ IF failAt # 0
       THEN /\ ret' = [op |-> "setup_vcpu", val |-> "Err"]
            /\ UNCHANGED <<pc, mem, staleUse>>
       ELSE IF guest_mem = "mapped"
            THEN /\ ub = "lands"
                 /\ mem' = copy_nonoverlapping(guest_code, mem, load_offset)
                 /\ ret' = [op |-> "setup_vcpu", val |-> "Ok"]
                 /\ UNCHANGED <<pc, staleUse>>
            ELSE /\ staleUse' = staleUse \cup {"copy"}
                 /\ mem' = mem
                 /\ IF ub = "segv"
                    THEN /\ pc' = "crashed"
                         /\ ret' = ret
                    ELSE /\ pc' = pc
                         /\ ret' = [op |-> "setup_vcpu", val |-> "Ok"]
    /\ UNCHANGED <<kvm, vm, vcpu, guest_mem, slot0, loop, history, stdout,
                   munmaps>>

(***************************************************************************)
(* Vmm::run: entry, one iteration of the loop per vcpu.run(), and the      *)
(* return after a break.  The value returned is Ok(()) on every path.      *)
(***************************************************************************)
run_enter ==
    /\ pc = "live"
    /\ callsLeft > 0
    /\ callsLeft' = callsLeft - 1
    /\ pc' = "run_loop"
    /\ loop' = "Running"
    /\ history' = <<>>
    /\ stdout' = "VMM thread running"
    /\ UNCHANGED <<kvm, vm, vcpu, guest_mem, slot0, sregs, regs, mem, ret,
                   munmaps, staleUse>>

\* Variant: the loop gives up after its second iteration.
run_iter_Bounded(e) ==
    /\ pc = "run_loop"
    /\ loop = "Running"
    /\ Len(history) < MaxExits
    /\ history' = Append(history, e)
    /\ loop' = IF Len(history) >= 1 /\ Dispatch(e) = "Running"
               THEN "Aborted"
               ELSE Dispatch(e)
    /\ stdout' = Printed(e)
    /\ staleUse' = IF guest_mem = "unmapped"
                   THEN staleUse \cup {"run"}
                   ELSE staleUse
    /\ UNCHANGED <<pc, kvm, vm, vcpu, guest_mem, slot0, sregs, regs, mem,
                   ret, munmaps, callsLeft>>

run_iter(e) ==
    /\ pc = "run_loop"
    /\ loop = "Running"
    /\ Len(history) < MaxExits
    /\ history' = Append(history, e)
    /\ loop' = Dispatch(e)
    /\ stdout' = Printed(e)
    /\ staleUse' = IF guest_mem = "unmapped"
                   THEN staleUse \cup {"run"}
                   ELSE staleUse
    /\ UNCHANGED <<pc, kvm, vm, vcpu, guest_mem, slot0, sregs, regs, mem,
                   ret, munmaps, callsLeft>>

run_return ==
    /\ pc = "run_loop"
    /\ loop \in {"Halted", "Aborted"}
    /\ pc' = "live"
    /\ ret' = [op |-> "run", val |-> "Ok"]
    /\ UNCHANGED <<kvm, vm, vcpu, guest_mem, slot0, sregs, regs, mem, loop,
                   history, stdout, munmaps, staleUse, callsLeft>>

(***************************************************************************)
(* Vmm::cleanup: munmap(guest_mem, mem_size), unconditionally; the pointer *)
(* is kept and the result of munmap is ignored.                            *)
(***************************************************************************)
cleanup_body ==
    /\ munmaps' = munmaps + 1
    /\ guest_mem' = "unmapped"
    /\ staleUse' = IF guest_mem = "unmapped"
                   THEN staleUse \cup {"munmap"}
                   ELSE staleUse

cleanup ==
    /\ pc = "live"
    /\ callsLeft > 0
    /\ callsLeft' = callsLeft - 1
    /\ cleanup_body
    /\ ret' = [op |-> "cleanup", val |-> "Unit"]
    /\ UNCHANGED <<pc, kvm, vm, vcpu, slot0, sregs, regs, mem, loop,
                   history, stdout>>

(***************************************************************************)
(* The Vmm goes out of scope: Drop::drop runs cleanup, then the fields are *)
(* dropped in the order of their declaration (kvm, vm, vcpu).              *)
(***************************************************************************)
drop ==
    /\ pc = "live"
    /\ cleanup_body
    /\ pc' = "drop_kvm"
    /\ UNCHANGED <<kvm, vm, vcpu, slot0, sregs, regs, mem, loop, history,
                   stdout, ret, callsLeft>>

drop_kvm ==
    /\ pc = "drop_kvm"
    /\ kvm' = "closed"
    /\ pc' = "drop_vm"
    /\ UNCHANGED <<vm, vcpu, guest_mem, slot0, sregs, regs, mem, loop,
                   history, stdout, ret, munmaps, staleUse, callsLeft>>

drop_vm ==
    /\ pc = "drop_vm"
    /\ vm' = "closed"
    /\ pc' = "drop_vcpu"
    /\ UNCHANGED <<kvm, vcpu, guest_mem, slot0, sregs, regs, mem, loop,
                   history, stdout, ret, munmaps, staleUse, callsLeft>>

drop_vcpu ==
    /\ pc = "drop_vcpu"
    /\ vcpu' = "closed"
    /\ pc' = "exit"
    /\ UNCHANGED <<kvm, vm, guest_mem, slot0, sregs, regs, mem, loop,
                   history, stdout, ret, munmaps, staleUse, callsLeft>>

(***************************************************************************)
(* Properties                                                              *)
(***************************************************************************)
Kinds(h) == [i \in 1..Len(h) |-> h[i].kind]
Last(h) == h[Len(h)]
DropPcs == {"drop_kvm", "drop_vm", "drop_vcpu", "exit"}

\* C1: when Vmm::new returns an error, every resource acquired by the
\* earlier steps has been released: no handle is open and the host
\* mapping is not left mapped.
C1_InitFailureReleasesAll ==
    (pc = "exit" /\ ret = [op |-> "new", val |-> "Err"])
        => /\ kvm # "open"
           /\ vm # "open"
           /\ vcpu # "open"
           /\ guest_mem # "mapped"

\* C2: on the teardown path the host mapping is unmapped only after the
\* VM handle and the vCPU handle have been released.
C2_UnmapAfterHandles ==
    (pc \in DropPcs /\ guest_mem = "unmapped")
        => (vm # "open" /\ vcpu # "open")

\* C3: when the program has left the Supervisor's scope, the host
\* allocation that was made has been unmapped exactly once.
C3_TeardownExactlyOnce ==
    (pc = "exit" /\ guest_mem # "none") => munmaps = 1

\* C4: a second teardown does not unmap the host allocation again: munmap
\* is issued on guest_mem at most once.
C4_SecondTeardownNoUnmap ==
    munmaps <= 1

\* C5: the loop is Running after an IoIn or IoOut exit, whatever its port
\* and data, and Halted only after a Halt exit; after the exits
\* [IoOut, IoIn, Halt] it is Halted, and Running after each of the first two.
C5_IoStaysRunning ==
    /\ (history # <<>> /\ Last(history).kind \in IoKinds) => loop = "Running"
    /\ loop = "Halted" => (history # <<>> /\ Last(history).kind = "Hlt")
    /\ Kinds(history) = <<"IoOut", "IoIn", "Hlt">> => loop = "Halted"

C5_Witness ==
    /\ Kinds(history) = <<"IoOut", "IoIn", "Hlt">>
    /\ history[1].addr # history[2].addr
    /\ history[1].data # history[2].data
    /\ loop = "Halted"

\* C6: when the first exit is Halt, the loop has consumed exactly that one
\* exit, is Halted, and vcpu.run() is not invoked again in this run().
C6_FirstHaltTerminal ==
    (history # <<>> /\ history[1].kind = "Hlt")
        => (Len(history) = 1 /\ loop = "Halted")

C6_Witness ==
    /\ Kinds(history) = <<"Hlt">>
    /\ loop = "Halted"
    /\ pc = "live"
    /\ ret.op = "run"

\* C7: an exit other than Halt, IoIn and IoOut, or an error of vcpu.run(),
\* puts the loop in Aborted and is the last outcome the loop consumes.
C7_OtherExitAborts ==
    \A i \in 1..Len(history) :
        history[i].kind \notin {"Hlt", "IoIn", "IoOut"}
            => (i = Len(history) /\ loop = "Aborted")

C7_Witness ==
    /\ Len(history) >= 2
    /\ Last(history).kind = "Err"
    /\ loop = "Aborted"
    /\ pc = "live"
    /\ ret.op = "run"

\* C8: the value run() returns tells the terminal state: it is Ok exactly
\* when the loop ended in Halted, and an abort or a vCPU fault is returned
\* as an error.
C8_ResultTellsTerminalState ==
    (pc = "live" /\ ret.op = "run")
        => (ret.val = "Ok" <=> loop = "Halted")

\* C9: whenever the vCPU is executing guest code, the region is registered
\* at slot 0 of the open VM and its host allocation is mapped.
C9_RunOnlyWhileRegisteredAndMapped ==
    (pc = "run_loop" /\ loop = "Running")
        => /\ slot0 = mem_region
           /\ vm = "open"
           /\ guest_mem = "mapped"

\* C10: after cleanup has unmapped the host allocation, neither the code
\* copy of setup_vcpu nor vcpu.run() uses it again.
C10_NoUseAfterTeardown ==
    staleUse \cap {"copy", "run"} = {}

\* C12: while no host memory is mapped (mmap not yet called, or it
\* returned MAP_FAILED), the program is never at the registration or the
\* vCPU creation step, no region is registered and no vCPU exists; and
\* when the error of a failed mmap has reached the caller, the VM handle
\* and the context handle have both been released.
C12_MmapFailureStopsAndReleases ==
    guest_mem = "none"
        => /\ pc \in {"main", "new_create_vm", "new_mmap", "unwind_vm",
                      "unwind_kvm", "exit"}
           /\ slot0 = NoRegion
           /\ vcpu = "none"
           /\ (pc = "exit" => (ret = [op |-> "new", val |-> "Err"]
                               /\ kvm # "open" /\ vm # "open"))

C12_Witness ==
    /\ pc = "exit"
    /\ guest_mem = "none"
    /\ vm = "closed"
    /\ kvm = "closed"
    /\ ret = [op |-> "new", val |-> "Err"]

\* C14: once setup_vcpu has set the registers, the instruction pointer is
\* the guest-physical base registered at slot 0 plus the offset the code
\* is copied to; after a successful setup_vcpu the code segment has base 0
\* and selector 0, and the code bytes lie at that offset of the mapping.
C14_RipIsLoadAddress ==
    /\ regs.set => regs.rip = slot0.guest_phys_addr + load_offset
    /\ (pc = "live" /\ ret = [op |-> "setup_vcpu", val |-> "Ok"])
          => /\ regs.set
             /\ regs.rip = guest_addr + load_offset
             /\ sregs.set
             /\ sregs.cs_base = 0
             /\ sregs.cs_selector = 0
             /\ guest_mem = "mapped"
                  => SubSeq(mem, load_offset + 1,
                            load_offset + Len(guest_code)) = guest_code

C14_Witness ==
    /\ pc = "live"
    /\ ret = [op |-> "setup_vcpu", val |-> "Ok"]
    /\ guest_mem = "mapped"
    /\ regs = [set |-> TRUE, rip |-> 4096]
    /\ SubSeq(mem, 1, 2) = <<235, 254>>

\* C15: a setup_vcpu in which get_sregs, set_sregs, get_regs or set_regs
\* fails returns the error at once: the registers of the later steps are
\* not set and no byte of guest memory is written.
C15_SetupFailsFast ==
    [][\A failAt \in 1..4, ub \in {"lands", "segv"} :
          setup_vcpu(failAt, ub)
              => /\ ret' = [op |-> "setup_vcpu", val |-> "Err"]
                 /\ pc' = pc
                 /\ mem' = mem
                 /\ staleUse' = staleUse
                 /\ regs' = regs
                 /\ (failAt \in {1, 2} => sregs' = sregs)]_vars

C15_Witness ==
    /\ pc = "live"
    /\ ret = [op |-> "setup_vcpu", val |-> "Err"]
    /\ guest_mem = "mapped"
    /\ sregs.set
    /\ ~regs.set
    /\ mem = zero_page

\* C16: a vCPU handle is never open after its VM handle has been closed,
\* and a VM handle is never open after the context handle has been closed.
C16_VcpuReleasedBeforeVm ==
    /\ vm = "closed" => vcpu # "open"
    /\ kvm = "closed" => vm # "open"

\* The transition the exit dispatcher takes for each kind of outcome.
Decision(kind) ==
    CASE kind = "Hlt" -> "Halted"
      [] kind \in IoKinds -> "Running"
      [] OTHER -> "Aborted"

NoHlt(h) == \A i \in 1..Len(h) : h[i].kind # "Hlt"
AllIo(h) == \A i \in 1..Len(h) : h[i].kind \in IoKinds

\* C17: every step in which the loop consumes an outcome of vcpu.run()
\* starts in Running and ends in the state fixed by the kind of that
\* outcome alone, whatever its payload and the earlier outcomes; it leaves
\* the registers, the guest memory, the registration and the handles as
\* they were.
C17_DispatchByKindOnly ==
    [][Len(history') = Len(history) + 1
          => /\ loop = "Running"
             /\ loop' = Decision(Last(history').kind)
             /\ UNCHANGED <<regs, sregs, mem, slot0, guest_mem, munmaps,
                            kvm, vm, vcpu, ret>>]_vars

C17_Witness ==
    /\ Len(history) >= 2
    /\ history[1].kind = history[2].kind
    /\ history[1].addr # history[2].addr
    /\ history[1].data # history[2].data
    /\ regs.set
    /\ SubSeq(mem, 1, 2) = guest_code
    /\ loop = "Running"

\* C18: as long as vcpu.run() has returned no Halt exit in this run(),
\* the loop is not Halted and "Guest halted" is not what was printed; if
\* run() has returned, the loop ended in Aborted.
C18_NoHaltWithoutHltExit ==
    (loop # "Idle" /\ NoHlt(history))
        => /\ loop # "Halted"
           /\ stdout # "Guest halted"
           /\ (pc = "live" /\ ret.op = "run") => loop = "Aborted"

C18_Witness ==
    /\ pc = "live"
    /\ ret.op = "run"
    /\ history # <<>>
    /\ NoHlt(history)
    /\ loop = "Aborted"
    /\ regs.set
    /\ SubSeq(mem, 1, 2) = guest_code

\* C19: run() returns once the loop has consumed a Halt exit, an
\* unrecognized exit or an error, and only then: after any number of
\* IoIn/IoOut exits the loop is still Running inside run(), and a run()
\* that has returned consumed a last outcome that is not IoIn or IoOut.
C19_RunEndsOnlyOnTerminalOutcome ==
    /\ []((pc = "run_loop" /\ AllIo(history)) => loop = "Running")
    /\ []((pc = "live" /\ ret.op = "run")
            => (history # <<>> /\ Last(history).kind \notin IoKinds))
    /\ ((pc = "run_loop" /\ loop \in {"Halted", "Aborted"})
            ~> (pc = "live" /\ ret.op = "run"))

C19_Witness ==
    /\ pc = "run_loop"
    /\ Len(history) >= 3
    /\ AllIo(history)
    /\ loop = "Running"

Next ==
    \/ \E ok \in BOOLEAN : new_open_kvm(ok)
    \/ \E ok \in BOOLEAN : new_create_vm(ok)
    \/ \E ok \in BOOLEAN : new_mmap(ok)
    \/ \E ok \in BOOLEAN : new_set_user_memory_region(ok)
    \/ \E ok \in BOOLEAN : new_create_vcpu(ok)
    \/ unwind_vm
    \/ unwind_kvm
    \/ \E failAt \in 0..4, ub \in {"lands", "segv"} : setup_vcpu(failAt, ub)
    \/ run_enter
    \/ \E e \in RunOutcome : run_iter(e)
    \/ run_return
    \/ cleanup
    \/ drop
    \/ drop_kvm
    \/ drop_vm
    \/ drop_vcpu

Spec == Init /\ [][Next]_vars

\* The thread does not stop by itself: after a break the loop is left and
\* run() returns.  Nothing is assumed of vcpu.run(), which may block for
\* ever, nor of the owner's further calls.
FairSpec == Spec /\ WF_vars(run_return)
====
